---- MODULE Spec2Model ----
(***************************************************************************)
(* A model of the Logger class of src/src/logger.ts: level gating decided  *)
(* at construction, the sanitize / format / serialize pipeline of a log    *)
(* call, and the routing of the serialized line to console.log or          *)
(* console.error.                                                          *)
(*                                                                         *)
(* JavaScript values are tagged records.  A string is a sequence of text   *)
(* tokens; a token is a piece of text without a line break, or the line    *)
(* break "\n" itself.  Objects, arrays, Error instances and functions live *)
(* in a heap (node id -> node) and are referred to by Ref(p), so that      *)
(* identity, sharing and cycles are what they are in the program.          *)
(***************************************************************************)
EXTENDS Integers, Sequences, FiniteSets, TLC

VARIABLES
  env,      \* process.env.LOG_LEVEL
  loggers,  \* the Logger instances constructed so far
  stdout,   \* lines written with console.log, in order
  stderr,   \* lines written with console.error, in order
  now,      \* the clock read by new Date()
  calls,    \* number of method calls made so far
  last,     \* observation of the latest method call
  born,     \* for each instance, the environment value its constructor read
  san       \* a top-level sanitizeObject run: input, results, serialization

vars == <<env, loggers, stdout, stderr, now, calls, last, born, san>>

logVars == <<env, loggers, stdout, stderr, now, calls, last, born>>

-----------------------------------------------------------------------------
(* Bounds                                                                    *)

MaxLoggers == 2

MaxCalls == 2

MaxArrLen == 2

-----------------------------------------------------------------------------
(* enum LogLevel                                                             *)

ERROR == 0

WARN == 1

INFO == 2

DEBUG == 3

LogLevel == {ERROR, WARN, INFO, DEBUG}

\* LogLevel[level]: the reverse mapping of the numeric enum
LogLevelName(level) ==
  CASE level = ERROR -> "ERROR"
    [] level = WARN -> "WARN"
    [] level = INFO -> "INFO"
    [] level = DEBUG -> "DEBUG"

-----------------------------------------------------------------------------
(* JavaScript values                                                         *)

Undefined == [t |-> "undefined"]

Num(n) == [t |-> "num", n |-> n]

Str(s) == [t |-> "str", s |-> s]

Ref(p) == [t |-> "ref", p |-> p]

\* a freshly built plain object: its own enumerable entries in insertion order
Obj(ents) == [t |-> "obj", ents |-> ents]

\* a freshly built array
Arr(elems) == [t |-> "arr", elems |-> elems]

Entry(k, v) == [key |-> k, val |-> v]

\* heap nodes
ObjNode(ents) == [kind |-> "obj", ents |-> ents]

ArrNode(elems) == [kind |-> "arr", elems |-> elems]

ErrNode(name, message, stack) ==
  [kind |-> "err", name |-> name, message |-> message, stack |-> stack]

FnNode(src) == [kind |-> "fn", src |-> src]

EmptyHeap == <<>>

Keys(ents) == {ents[i].key : i \in DOMAIN ents}

\* obj[k] for a key the object has
Get(ents, k) == ents[CHOOSE i \in DOMAIN ents : ents[i].key = k].val

-----------------------------------------------------------------------------
(* sanitizeObject                                                            *)

RECURSIVE sanitizeValue(_, _, _)
RECURSIVE sanitizeElems(_, _, _, _, _)
RECURSIVE sanitizeEntries(_, _, _, _, _)

\* value.map(sanitizeValue): elements left to right, sharing the seen set
sanitizeElems(h, elems, i, seen, acc) ==
  IF i > Len(elems) THEN [out |-> Arr(acc), seen |-> seen]
  ELSE LET r == sanitizeValue(h, elems[i], seen)
       IN sanitizeElems(h, elems, i + 1, r.seen, Append(acc, r.out))

\* for (const [key, val] of Object.entries(value)) result[key] = sanitizeValue(val)
sanitizeEntries(h, ents, i, seen, acc) ==
  IF i > Len(ents) THEN [out |-> Obj(acc), seen |-> seen]
  ELSE LET r == sanitizeValue(h, ents[i].val, seen)
       IN sanitizeEntries(h, ents, i + 1, r.seen,
                          Append(acc, Entry(ents[i].key, r.out)))

\* the closure sanitizeValue; seen is the WeakSet, threaded through the calls
sanitizeValue(h, value, seen) ==
  IF value.t # "ref" THEN [out |-> value, seen |-> seen]
  ELSE
    LET node == h[value.p] IN
    IF node.kind = "fn" THEN [out |-> Str(node.src), seen |-> seen]
    ELSE IF node.kind = "err" THEN
      [out |-> Obj(<<Entry("name", node.name),
                     Entry("message", node.message),
                     Entry("stack", node.stack)>>),
       seen |-> seen]
    ELSE IF value.p \in seen THEN [out |-> Str(<<"[Circular]">>), seen |-> seen]
    ELSE IF node.kind = "arr"
      THEN sanitizeElems(h, node.elems, 1, seen \cup {value.p}, <<>>)
      ELSE sanitizeEntries(h, node.ents, 1, seen \cup {value.p}, <<>>)

\* new WeakSet() per top-level call
sanitizeObject(h, obj) == sanitizeValue(h, obj, {}).out

-----------------------------------------------------------------------------
(* JSON.stringify                                                            *)

\* children JSON.stringify descends into: own enumerable properties.  The
\* name, message and stack of an Error instance are not enumerable.
Children(h, p) ==
  LET node == h[p] IN
  IF node.kind = "obj" THEN {node.ents[i].val : i \in DOMAIN node.ents}
  ELSE IF node.kind = "arr" THEN {node.elems[i] : i \in DOMAIN node.elems}
  ELSE {}

Succ(h, p) == {v.p : v \in {c \in Children(h, p) : c.t = "ref"}}

RECURSIVE ReachFrom(_, _, _)
ReachFrom(h, frontier, acc) ==
  IF frontier \subseteq acc THEN acc
  ELSE ReachFrom(h, UNION {Succ(h, p) : p \in frontier \ acc}, acc \cup frontier)

\* nodes reachable from p, p included
Reach(h, p) == ReachFrom(h, {p}, {})

OnCycle(h, p) == p \in ReachFrom(h, Succ(h, p), {})

\* the references held by a value built by sanitizeObject or formatMessage
RECURSIVE RefLeaves(_)
RefLeaves(v) ==
  IF v.t = "ref" THEN {v.p}
  ELSE IF v.t = "obj" THEN UNION {RefLeaves(v.ents[i].val) : i \in DOMAIN v.ents}
  ELSE IF v.t = "arr" THEN UNION {RefLeaves(v.elems[i]) : i \in DOMAIN v.elems}
  ELSE {}

\* JSON.stringify throws TypeError: Converting circular structure to JSON
IsCircular(h, v) ==
  \E p \in RefLeaves(v) : \E q \in Reach(h, p) : OnCycle(h, q)

Digits == <<"0", "1", "2", "3", "4", "5", "6", "7", "8", "9">>

\* the escape of one token inside a JSON string literal
Escape(tok) ==
  IF tok = "\n" THEN "\\n" ELSE IF tok = "\"" THEN "\\\"" ELSE tok

Quote(s) == <<"\"">> \o [i \in 1..Len(s) |-> Escape(s[i])] \o <<"\"">>

Omitted == <<"<omitted>">>

RECURSIVE Ser(_, _)
RECURSIVE SerEntries(_, _, _, _)
RECURSIVE SerElems(_, _, _, _)

\* properties whose value serializes to undefined are skipped
SerEntries(h, ents, i, acc) ==
  IF i > Len(ents) THEN <<"{">> \o acc \o <<"}">>
  ELSE LET s == Ser(h, ents[i].val) IN
       IF s = Omitted THEN SerEntries(h, ents, i + 1, acc)
       ELSE SerEntries(h, ents, i + 1,
              (IF acc = <<>> THEN <<>> ELSE acc \o <<",">>)
                \o Quote(<<ents[i].key>>) \o <<":">> \o s)

\* array elements that serialize to undefined become null
SerElems(h, elems, i, acc) ==
  IF i > Len(elems) THEN <<"[">> \o acc \o <<"]">>
  ELSE LET s == Ser(h, elems[i]) IN
       SerElems(h, elems, i + 1,
         (IF acc = <<>> THEN <<>> ELSE acc \o <<",">>)
           \o (IF s = Omitted THEN <<"null">> ELSE s))

Ser(h, v) ==
  IF v.t = "undefined" THEN Omitted
  ELSE IF v.t = "num" THEN <<Digits[v.n + 1]>>
  ELSE IF v.t = "str" THEN Quote(v.s)
  ELSE IF v.t = "obj" THEN SerEntries(h, v.ents, 1, <<>>)
  ELSE IF v.t = "arr" THEN SerElems(h, v.elems, 1, <<>>)
  ELSE LET node == h[v.p] IN
       IF node.kind = "fn" THEN Omitted
       ELSE IF node.kind = "err" THEN <<"{", "}">>
       ELSE IF node.kind = "arr" THEN SerElems(h, node.elems, 1, <<>>)
       ELSE SerEntries(h, node.ents, 1, <<>>)

Throws == <<"<TypeError>">>

\* JSON.stringify(v): the text, or Throws on a circular structure
JSONstringify(h, v) == IF IsCircular(h, v) THEN Throws ELSE Ser(h, v)

-----------------------------------------------------------------------------
(* Logger: construction and level gating                                     *)

UpperCase ==
  <<"A", "B", "C", "D", "E", "F", "G", "H", "I", "J", "K", "L", "M",
    "N", "O", "P", "Q", "R", "S", "T", "U", "V", "W", "X", "Y", "Z">>

LowerCase ==
  <<"a", "b", "c", "d", "e", "f", "g", "h", "i", "j", "k", "l", "m",
    "n", "o", "p", "q", "r", "s", "t", "u", "v", "w", "x", "y", "z">>

toLowerCaseChar(c) ==
  IF \E i \in DOMAIN UpperCase : UpperCase[i] = c
    THEN LowerCase[CHOOSE i \in DOMAIN UpperCase : UpperCase[i] = c]
    ELSE c

\* String.prototype.toLowerCase, character by character
toLowerCase(s) == [i \in 1..Len(s) |-> toLowerCaseChar(s[i])]

\* a faulty variant: the switch without toLowerCase
parseLogLevelCaseSensitive(logLevel) ==
  IF logLevel.t = "undefined" THEN INFO
  ELSE CASE logLevel.s = <<"e", "r", "r", "o", "r">> -> ERROR
         [] logLevel.s = <<"w", "a", "r", "n">> -> WARN
         [] logLevel.s = <<"i", "n", "f", "o">> -> INFO
         [] logLevel.s = <<"d", "e", "b", "u", "g">> -> DEBUG
         [] OTHER -> INFO

\* switch (logLevel?.toLowerCase())
parseLogLevel(logLevel) ==
  IF logLevel.t = "undefined" THEN INFO
  ELSE LET key == toLowerCase(logLevel.s) IN
       CASE key = <<"e", "r", "r", "o", "r">> -> ERROR
         [] key = <<"w", "a", "r", "n">> -> WARN
         [] key = <<"i", "n", "f", "o">> -> INFO
         [] key = <<"d", "e", "b", "u", "g">> -> DEBUG
         [] OTHER -> INFO

Methods == {"error", "warn", "info", "debug"}

\* the severity each public method is created for
MethodLevel(m) ==
  CASE m = "error" -> ERROR
    [] m = "warn" -> WARN
    [] m = "info" -> INFO
    [] m = "debug" -> DEBUG

\* the closure returned by createLogMethod(level)
createLogMethod(level) == [impl |-> "log", level |-> level]

noOp == [impl |-> "noOp"]

\* a faulty variant: the comparison of the constructor reversed
BindMethodReversed(logLevel, level) ==
  IF logLevel <= level THEN createLogMethod(level) ELSE noOp

\* a faulty variant: strict comparison in the constructor
BindMethodStrict(logLevel, level) ==
  IF logLevel > level THEN createLogMethod(level) ELSE noOp

\* this.logLevel >= LogLevel.X ? this.createLogMethod(LogLevel.X) : this.noOp
BindMethod(logLevel, level) ==
  IF logLevel >= level THEN createLogMethod(level) ELSE noOp

\* new Logger(microservice) under environment value e
NewLogger(microservice, e) ==
  LET logLevel == parseLogLevel(e) IN
  [microservice |-> microservice,
   logLevel |-> logLevel,
   error |-> BindMethod(logLevel, ERROR),
   warn |-> BindMethod(logLevel, WARN),
   info |-> BindMethod(logLevel, INFO),
   debug |-> BindMethod(logLevel, DEBUG)]

\* a faulty variant: the method looks the level up in the environment on each call
DispatchFromEnv(lg, m) == BindMethod(parseLogLevel(env), MethodLevel(m))

\* logger.error / .warn / .info / .debug: the function value bound at construction
Dispatch(lg, m) == lg[m]

-----------------------------------------------------------------------------
(* getCallerInfo                                                             *)

\* a line of error.stack: whether /at ([\w.]+)/ matches it, and the dotted name
Frame(parts) == [matches |-> TRUE, parts |-> parts]

NoMatch == [matches |-> FALSE, parts |-> <<>>]

\* the lines above the caller: "Error", getCallerInfo, formatMessage, the log method
OwnFrames ==
  <<NoMatch, Frame(<<"Logger", "getCallerInfo">>),
    Frame(<<"Logger", "formatMessage">>), Frame(<<"Logger", "error">>)>>

\* for (let i = 4; ...) over the 0-based lines: 1-based lines 5 and up
getCallerInfo(stack) ==
  LET hits == {i \in 5..Len(stack) : stack[i].matches} IN
  IF hits = {} THEN "unknown"
  ELSE LET i == CHOOSE j \in hits : \A k \in hits : j <= k
       IN stack[i].parts[Len(stack[i].parts)]

-----------------------------------------------------------------------------
(* formatMessage                                                             *)

\* new Date().toISOString() at clock reading n
toISOString(n) == <<"T", Digits[(n % 10) + 1]>>

RECURSIVE IndexEntries(_, _, _)
IndexEntries(elems, i, acc) ==
  IF i > Len(elems) THEN acc
  ELSE IndexEntries(elems, i + 1, Append(acc, Entry(Digits[i], elems[i])))

\* the own enumerable properties Object.assign copies from a source value
OwnEnumerable(source) ==
  IF source.t = "obj" THEN source.ents
  ELSE IF source.t = "arr" THEN IndexEntries(source.elems, 1, <<>>)
  ELSE IF source.t = "str"
    THEN IndexEntries([i \in 1..Len(source.s) |-> Str(<<source.s[i]>>)], 1, <<>>)
  ELSE <<>>

\* target[key] = val: an existing key keeps its place, a new key goes last
SetKey(ents, key, val) ==
  IF key \in Keys(ents)
    THEN [i \in 1..Len(ents) |->
            IF ents[i].key = key THEN Entry(key, val) ELSE ents[i]]
    ELSE Append(ents, Entry(key, val))

RECURSIVE AssignFrom(_, _, _)
AssignFrom(ents, src, i) ==
  IF i > Len(src) THEN ents
  ELSE AssignFrom(SetKey(ents, src[i].key, src[i].val), src, i + 1)

\* a faulty variant: keys the target already has are kept
ObjectAssignKeepExisting(target, source) ==
  LET src == OwnEnumerable(source)
      fresh == SelectSeq(src, LAMBDA e : e.key \notin Keys(target.ents))
  IN Obj(AssignFrom(target.ents, fresh, 1))

\* Object.assign(target, source)
ObjectAssign(target, source) ==
  Obj(AssignFrom(target.ents, OwnEnumerable(source), 1))

\* formatMessage(level, message) of logger lg, with the stack captured by
\* getCallerInfo and the clock reading; threw: JSON.stringify raised
formatMessage(lg, level, h, message, stack, clock) ==
  IF message.t = "str" THEN
    [threw |-> FALSE,
     logMessage |-> Obj(<<Entry("timestamp", Str(toISOString(clock))),
                          Entry("level", Str(<<level>>)),
                          Entry("message", message),
                          Entry("microservice", Str(<<lg.microservice>>)),
                          Entry("caller", Str(<<getCallerInfo(stack)>>))>>),
     sanitizeCalls |-> 0, stringifyCalls |-> 0]
  ELSE
    LET text == JSONstringify(h, sanitizeObject(h, message)) IN
    IF text = Throws THEN
      [threw |-> TRUE, logMessage |-> Undefined,
       sanitizeCalls |-> 1, stringifyCalls |-> 1]
    ELSE
      [threw |-> FALSE,
       logMessage |->
         ObjectAssign(
           Obj(<<Entry("timestamp", Str(toISOString(clock))),
                 Entry("level", Str(<<level>>)),
                 Entry("message", IF text = Omitted THEN Undefined ELSE Str(text)),
                 Entry("microservice", Str(<<lg.microservice>>)),
                 Entry("caller", Str(<<getCallerInfo(stack)>>))>>),
           sanitizeObject(h, message)),
       sanitizeCalls |-> 2, stringifyCalls |-> 1]

-----------------------------------------------------------------------------
(* The log methods                                                           *)

\* a faulty variant: WARN goes to console.error too
RouteWarnToError(level) == IF level <= WARN THEN "stderr" ELSE "stdout"

\* if (level <= LogLevel.ERROR) console.error(output) else console.log(output)
Route(level) == IF level <= ERROR THEN "stderr" ELSE "stdout"

Silent(threw, sanitizeCalls, stringifyCalls) ==
  [emitted |-> FALSE, threw |-> threw, stream |-> "none", line |-> <<>>,
   logMessage |-> Undefined, level |-> "none",
   sanitizeCalls |-> sanitizeCalls, stringifyCalls |-> stringifyCalls]

\* what a call of the bound function value does: noOp, or the arrow function
\* of createLogMethod
LogMethodOutcome(lg, bound, h, message, frames, clock) ==
  IF bound.impl = "noOp" THEN Silent(FALSE, 0, 0)
  ELSE
    LET fm == formatMessage(lg, LogLevelName(bound.level), h, message,
                            OwnFrames \o frames, clock)
    IN
    IF fm.threw THEN Silent(TRUE, fm.sanitizeCalls, fm.stringifyCalls)
    ELSE
      LET output == JSONstringify(h, fm.logMessage) IN
      IF output = Throws
        THEN Silent(TRUE, fm.sanitizeCalls, fm.stringifyCalls + 1)
        ELSE [emitted |-> TRUE, threw |-> FALSE, stream |-> Route(bound.level),
              line |-> output, logMessage |-> fm.logMessage,
              level |-> LogLevelName(bound.level),
              sanitizeCalls |-> fm.sanitizeCalls,
              stringifyCalls |-> fm.stringifyCalls + 1]

\* the effect of a method call on the streams and the clock
Written(o, stream, lines) ==
  IF o.emitted /\ o.stream = stream THEN Append(lines, o.line) ELSE lines

\* logger.error(x), logger.warn(x), logger.info(x), logger.debug(x)
Call(i, m, inp, frames) ==
  /\ calls < MaxCalls
  /\ i \in DOMAIN loggers
  /\ LET bound == Dispatch(loggers[i], m)
         o == LogMethodOutcome(loggers[i], bound, inp.h, inp.v, frames, now)
     IN /\ stdout' = Written(o, "stdout", stdout)
        /\ stderr' = Written(o, "stderr", stderr)
        /\ now' = IF bound.impl = "noOp" THEN now ELSE now + 1
        /\ last' = [kind |-> "call", logger |-> i, method |-> m,
                    h |-> inp.h, v |-> inp.v, frames |-> frames, clock |-> now,
                    o |-> o]
  /\ calls' = calls + 1
  /\ UNCHANGED <<env, loggers, born, san>>

\* the value of a string-typed property inside a template literal
ToText(v) ==
  IF v.t = "str" THEN v.s
  ELSE IF v.t = "undefined" THEN <<"undefined">>
  ELSE IF v.t = "num" THEN <<Digits[v.n + 1]>>
  ELSE <<"[object Object]">>

\* a faulty variant: replace('\n', ' ') replaces the first line break only
ReplaceFirstNewline(s) ==
  [i \in 1..Len(s) |->
     IF s[i] = "\n" /\ \A j \in 1..(i - 1) : s[j] # "\n" THEN " " ELSE s[i]]

\* errorMessage.replace(/\n/g, ' ')
ReplaceNewlines(s) == [i \in 1..Len(s) |-> IF s[i] = "\n" THEN " " ELSE s[i]]

IsNativeError(h, v) == v.t = "ref" /\ h[v.p].kind = "err"

\* the errorMessage built by logComplexError before the replace
ComplexErrorText(h, error) ==
  IF IsNativeError(h, error)
    THEN ToText(h[error.p].name) \o <<":", " ">> \o ToText(h[error.p].message)
           \o <<"\n">> \o ToText(h[error.p].stack)
    ELSE JSONstringify(h, sanitizeObject(h, error))

\* logger.logComplexError(error)
LogComplexError(i, inp, frames) ==
  /\ calls < MaxCalls
  /\ i \in DOMAIN loggers
  /\ LET lg == loggers[i]
         gate == lg.logLevel >= ERROR
         text == ComplexErrorText(inp.h, inp.v)
         native == IsNativeError(inp.h, inp.v)
         failed == text = Throws \/ text = Omitted
         errorMessage == ReplaceNewlines(text)
         h2 == Append(inp.h, ObjNode(<<Entry("complexError", Str(errorMessage))>>))
         bound == Dispatch(lg, "error")
         o == IF ~gate THEN Silent(FALSE, 0, 0)
              ELSE IF failed THEN Silent(TRUE, 1, 1)
              ELSE LogMethodOutcome(lg, bound, h2, Ref(Len(h2)),
                     <<Frame(<<"Logger", "logComplexError">>)>> \o frames, now)
         ran == gate /\ ~failed /\ bound.impl # "noOp"
     IN /\ stdout' = Written(o, "stdout", stdout)
        /\ stderr' = Written(o, "stderr", stderr)
        /\ now' = IF ran THEN now + 1 ELSE now
        /\ last' = [kind |-> "complex", logger |-> i, method |-> "error",
                    h |-> inp.h, v |-> inp.v, frames |-> frames, clock |-> now,
                    o |-> o]
  /\ calls' = calls + 1
  /\ UNCHANGED <<env, loggers, born, san>>

\* new Logger(microservice)
Construct(microservice) ==
  /\ Len(loggers) < MaxLoggers
  /\ loggers' = Append(loggers, NewLogger(microservice, env))
  /\ born' = Append(born, env)
  /\ UNCHANGED <<env, stdout, stderr, now, calls, last, san>>

\* process.env.LOG_LEVEL = v, or delete process.env.LOG_LEVEL
SetEnv(v) ==
  /\ v # env
  /\ env' = v
  /\ UNCHANGED <<loggers, born, stdout, stderr, now, calls, last, san>>

-----------------------------------------------------------------------------
(* Inputs                                                                    *)

EnvValues ==
  {Undefined, Str(<<>>), Str(<<"E", "R", "R", "O", "R">>),
   Str(<<"W", "a", "r", "n">>), Str(<<"i", "n", "f", "o">>),
   Str(<<"d", "e", "b", "u", "G">>), Str(<<"t", "r", "a", "c", "e">>)}

ServiceNames == <<"Svc", "Other">>

\* the service name the i-th instance of a run is constructed with
ServiceNameOf(i) == ServiceNames[((i - 1) % Len(ServiceNames)) + 1]

\* the frames of the calling code, innermost first
CallerStacks == {<<>>, <<NoMatch, Frame(<<"Object", "testFunction">>)>>}

Input(h, v) == [h |-> h, v |-> v]

\* 'y'
TextY == Input(EmptyHeap, Str(<<"y">>))

\* { code: 7, level: 'x' }
RecordCode ==
  Input(<<ObjNode(<<Entry("code", Num(7)), Entry("level", Str(<<"x">>))>>)>>, Ref(1))

\* new Error('m') as V8 builds it
NativeError ==
  Input(<<ErrNode(Str(<<"Error">>), Str(<<"m">>),
                  Str(<<"Error", ":", " ", "m", "\n", "    ", "at ", "f">>))>>,
        Ref(1))

LogInputs == {TextY, RecordCode}

ErrorInputs == {NativeError}

NoCall == [kind |-> "none"]

SanIdle == [phase |-> "idle"]

-----------------------------------------------------------------------------
(* The logger as a state machine                                             *)

Init ==
  /\ env \in EnvValues
  /\ loggers = <<>>
  /\ born = <<>>
  /\ stdout = <<>>
  /\ stderr = <<>>
  /\ now = 0
  /\ calls = 0
  /\ last = NoCall
  /\ san = SanIdle

DoSetEnv == \E v \in EnvValues : SetEnv(v)

DoConstruct == Construct(ServiceNameOf(Len(loggers) + 1))

DoCall ==
  \E i \in DOMAIN loggers, m \in Methods, inp \in LogInputs :
    Call(i, m, inp, <<>>)

DoLogComplexError ==
  \E i \in DOMAIN loggers, inp \in ErrorInputs : LogComplexError(i, inp, <<>>)

Next == DoSetEnv \/ DoConstruct \/ DoCall \/ DoLogComplexError

Spec == Init /\ [][Next]_vars

-----------------------------------------------------------------------------
(* One construction and one call, over a wide range of inputs                *)

Absent == [t |-> "absent"]

\* the plain objects with keys among keyOrder (in that order) and values in vals
ObjNodesOver(keyOrder, vals) ==
  {ObjNode(SelectSeq([i \in 1..Len(keyOrder) |-> Entry(keyOrder[i], f[i])],
                     LAMBDA e : e.val # Absent)) :
     f \in [1..Len(keyOrder) -> vals \cup {Absent}]}

\* new Error(message) with the given name, as V8 builds it: the stack is the
\* header line followed by the frames
V8Error(name, message) ==
  ErrNode(Str(name), Str(message),
          Str(name \o <<":", " ">> \o message
                \o <<"\n", "    ", "at ", "f", "\n", "    ", "at ", "g">>))

MultiLine == <<"m", "\n", "n">>

\* what the second node of a structured input may be
RecordChildren ==
  {ObjNode(<<Entry("a", Num(1))>>), ArrNode(<<Num(1), Ref(1)>>),
   V8Error(<<"Error">>, MultiLine), FnNode(<<"() => 1">>)}

\* structured records: node 1 is the record, node 2 something it may refer to
RecordInputs ==
  {Input(<<root, child>>, Ref(1)) :
     root \in ObjNodesOver(<<"level", "message", "a">>,
                           {Num(1), Str(<<"x">>), Ref(1), Ref(2)}),
     child \in RecordChildren}

TextInputs ==
  {Input(EmptyHeap, Str(s)) : s \in {<<>>, <<"y">>, <<"a", "\n", "\"", "b">>}}

NativeErrors ==
  {Input(<<V8Error(name, message)>>, Ref(1)) :
     name \in {<<"Error">>, <<"TypeError">>},
     message \in {<<>>, <<"m">>, MultiLine}}

\* structured error values: { name, message, a } with a child object
StructuredErrors ==
  {Input(<<root, ObjNode(<<Entry("additional", Str(<<"info">>))>>)>>, Ref(1)) :
     root \in {ObjNode(<<Entry("name", Str(<<"CustomError">>)),
                         Entry("message", Str(msg))>> \o rest) :
                 msg \in {<<"m">>, MultiLine, <<"say", "\"", "hi", "\"">>},
                 rest \in {<<>>, <<Entry("details", Ref(2))>>,
                           <<Entry("self", Ref(1))>>}}}

FmtInit ==
  /\ env \in EnvValues
  /\ loggers = <<>>
  /\ born = <<>>
  /\ stdout = <<>>
  /\ stderr = <<>>
  /\ now \in 0..1
  /\ calls = 0
  /\ last = NoCall
  /\ san = SanIdle

FmtConstruct ==
  /\ loggers = <<>>
  /\ \E i \in DOMAIN ServiceNames : Construct(ServiceNames[i])

FmtCall ==
  /\ calls = 0
  /\ \E m \in Methods, inp \in TextInputs \cup RecordInputs,
        frames \in CallerStacks :
       Call(1, m, inp, frames)

FmtLogComplexError ==
  /\ calls = 0
  /\ \E inp \in NativeErrors \cup StructuredErrors, frames \in CallerStacks :
       LogComplexError(1, inp, frames)

FmtNext == FmtConstruct \/ FmtCall \/ FmtLogComplexError

FmtSpec == FmtInit /\ [][FmtNext]_vars

-----------------------------------------------------------------------------
(* sanitizeObject over every small heap                                      *)

SanNodeIds == {1, 2}

SanValues == {Num(1), Ref(1), Ref(2)}

SanErrorFields == {Str(<<"E">>), Ref(1), Ref(2)}

SanNodes ==
  ObjNodesOver(<<"a", "b">>, SanValues)
    \cup {ArrNode(e) : e \in UNION {[1..n -> SanValues] : n \in 0..MaxArrLen}}
    \cup {ErrNode(n, m, st) : n \in SanErrorFields, m \in SanErrorFields,
                               st \in SanErrorFields}
    \cup {FnNode(<<"() => 1">>)}

SanInit ==
  /\ env = Undefined
  /\ loggers = <<>>
  /\ born = <<>>
  /\ stdout = <<>>
  /\ stderr = <<>>
  /\ now = 0
  /\ calls = 0
  /\ last = NoCall
  /\ \E n1 \in SanNodes, n2 \in SanNodes, v \in SanValues :
       san = [phase |-> "input", h |-> <<n1, n2>>, v |-> v]

\* sanitizeObject(v)
SanFirst ==
  /\ san.phase = "input"
  /\ san' = [phase |-> "sanitized", h |-> san.h, v |-> san.v,
             out |-> sanitizeObject(san.h, san.v)]
  /\ UNCHANGED logVars

\* sanitizeObject(v) once more, as formatMessage does
SanSecond ==
  /\ san.phase = "sanitized"
  /\ san' = [phase |-> "again", h |-> san.h, v |-> san.v, out |-> san.out,
             out2 |-> sanitizeObject(san.h, san.v)]
  /\ UNCHANGED logVars

\* JSON.stringify of the result
SanStringify ==
  /\ san.phase = "again"
  /\ san' = [phase |-> "serialized", h |-> san.h, v |-> san.v, out |-> san.out,
             out2 |-> san.out2, json |-> JSONstringify(san.h, san.out)]
  /\ UNCHANGED logVars

SanNext == SanFirst \/ SanSecond \/ SanStringify

SanSpec == SanInit /\ [][SanNext]_vars

-----------------------------------------------------------------------------
(* Vocabulary of the properties                                              *)

\* s contains sub as a run of consecutive tokens
Contains(s, sub) ==
  \E i \in 0..(Len(s) - Len(sub)) : \A j \in 1..Len(sub) : s[i + j] = sub[j]

UpperOf(c) ==
  IF \E i \in DOMAIN LowerCase : LowerCase[i] = c
    THEN UpperCase[CHOOSE i \in DOMAIN LowerCase : LowerCase[i] = c]
    ELSE c

\* s spells the lower-case word, whatever the case of each letter
SpellsIgnoringCase(s, word) ==
  /\ Len(s) = Len(word)
  /\ \A k \in 1..Len(word) : s[k] \in {word[k], UpperOf(word[k])}

\* the threshold the documentation gives for an environment value
ExpectedThreshold(e) ==
  IF e.t = "undefined" THEN INFO
  ELSE IF SpellsIgnoringCase(e.s, <<"e", "r", "r", "o", "r">>) THEN ERROR
  ELSE IF SpellsIgnoringCase(e.s, <<"w", "a", "r", "n">>) THEN WARN
  ELSE IF SpellsIgnoringCase(e.s, <<"d", "e", "b", "u", "g">>) THEN DEBUG
  ELSE INFO

Recognized(e) ==
  /\ e.t = "str"
  /\ \E word \in {<<"e", "r", "r", "o", "r">>, <<"w", "a", "r", "n">>,
                  <<"i", "n", "f", "o">>, <<"d", "e", "b", "u", "g">>} :
       SpellsIgnoringCase(e.s, word)

\* the call observed in last went to instance i with a method of severity S
LastLogger == loggers[last.logger]

LastLevel == MethodLevel(last.method)

IsLogCall == last.kind = "call"

\* the methods instance i answers by emitting
EmitSet(i) == {m \in Methods : Dispatch(loggers[i], m).impl = "log"}

Reserved == {"timestamp", "level", "message", "microservice", "caller"}

\* the input of the observed call is a structured record with own key k
InputHasKey(c, k) ==
  /\ c.kind = "call"
  /\ c.v.t = "ref"
  /\ c.h[c.v.p].kind = "obj"
  /\ k \in Keys(c.h[c.v.p].ents)

-----------------------------------------------------------------------------
(* Level gating                                                              *)

\* C1: a call of method S on an instance with threshold T writes a record iff
\* T >= S; when T < S neither stream changes, the clock is not read and no
\* sanitization or serialization is performed.
C1_LevelGating ==
  [][(calls' = calls + 1 /\ last'.kind = "call") =>
       LET T == loggers[last'.logger].logLevel
           S == MethodLevel(last'.method)
           written == (Len(stdout') + Len(stderr')) - (Len(stdout) + Len(stderr))
       IN /\ (T >= S) <=> (written = 1)
          /\ (T >= S) <=> last'.o.emitted
          /\ T < S => /\ stdout' = stdout
                      /\ stderr' = stderr
                      /\ now' = now
                      /\ last'.o.sanitizeCalls = 0
                      /\ last'.o.stringifyCalls = 0]_vars

\* a silent debug call on an INFO instance after an emitted call
C1_Witness ==
  /\ IsLogCall
  /\ LastLogger.logLevel = INFO
  /\ last.method = "debug"
  /\ ~last.o.emitted
  /\ Len(stdout) = 1

\* C2: the threshold is the case-insensitive match of the environment value
\* read at construction against error|warn|info|debug, and INFO for an absent,
\* empty or unrecognized value; such an instance emits on info, warn and error
\* and is silent on debug.
C2_ThresholdFromEnv ==
  /\ \A i \in DOMAIN loggers : loggers[i].logLevel = ExpectedThreshold(born[i])
  /\ \A i \in DOMAIN loggers :
       ~Recognized(born[i]) =>
         /\ loggers[i].logLevel = INFO
         /\ EmitSet(i) = {"error", "warn", "info"}
  /\ (IsLogCall /\ ~Recognized(born[last.logger])) =>
       (last.o.emitted <=> last.method # "debug")

\* instances built under the empty value and under an upper-case ERROR, the
\* first one just silent on debug
C2_Witness ==
  /\ Len(loggers) = 2
  /\ born[1] = Str(<<>>)
  /\ born[2] = Str(<<"E", "R", "R", "O", "R">>)
  /\ loggers[2].logLevel = ERROR
  /\ IsLogCall
  /\ last.logger = 1
  /\ last.method = "debug"
  /\ ~last.o.emitted

\* C3: whatever the environment has become since, an instance emits on the
\* severities enabled by the environment value its own constructor read, and
\* a call on it emits accordingly.
C3_FixedAtConstruction ==
  /\ \A i \in DOMAIN loggers :
       EmitSet(i) = {m \in Methods : parseLogLevel(born[i]) >= MethodLevel(m)}
  /\ IsLogCall =>
       (last.o.emitted <=> parseLogLevel(born[last.logger]) >= LastLevel)

\* two instances built under different values, the environment changed again,
\* and the first instance still emitting a debug record
C3_Witness ==
  /\ Len(loggers) = 2
  /\ parseLogLevel(born[1]) = DEBUG
  /\ parseLogLevel(born[2]) = WARN
  /\ parseLogLevel(env) = ERROR
  /\ IsLogCall
  /\ last.logger = 1
  /\ last.method = "debug"
  /\ last.o.emitted
  /\ calls = 2

\* C10: the threshold is never below ERROR, so the error method of every
\* instance is the active one, the gate of logComplexError is open, and both
\* error and logComplexError emit on every call.
C10_ErrorAlwaysActive ==
  /\ \A e \in EnvValues : parseLogLevel(e) >= ERROR
  /\ \A i \in DOMAIN loggers :
       /\ loggers[i].logLevel >= ERROR
       /\ Dispatch(loggers[i], "error").impl = "log"
  /\ (last.kind = "complex" \/ (IsLogCall /\ last.method = "error")) =>
       /\ last.o.emitted
       /\ last.o.stream = "stderr"

\* logComplexError emitting on an instance whose threshold is ERROR
C10_Witness ==
  /\ last.kind = "complex"
  /\ LastLogger.logLevel = ERROR
  /\ last.o.emitted
  /\ Len(stderr) = 2

-----------------------------------------------------------------------------
(* Emission                                                                  *)

-----------------------------------------------------------------------------
(* The record of a call                                                      *)

\* the envelope field k of the observed call, before the input is merged in
Envelope(k) ==
  CASE k = "timestamp" -> Str(toISOString(last.clock))
    [] k = "level" -> Str(<<LogLevelName(LastLevel)>>)
    [] k = "message" ->
         (IF last.v.t = "str" THEN last.v
          ELSE Str(JSONstringify(last.h, sanitizeObject(last.h, last.v))))
    [] k = "microservice" -> Str(<<LastLogger.microservice>>)
    [] k = "caller" -> Str(<<getCallerInfo(OwnFrames \o last.frames)>>)

\* C8: for a structured input the record holds every top-level key of
\* sanitize(input) with its sanitized value and every other reserved key with
\* its envelope value (message being the JSON text of sanitize(input)), and
\* nothing else; for a string input the record is the envelope with the
\* string as message.  The line written is the serialized record.
C8_RecordIsEnvelopePlusInput ==
  (IsLogCall /\ last.o.emitted) =>
    LET rec == last.o.logMessage.ents
        merged == IF last.v.t = "str" THEN <<>>
                  ELSE sanitizeObject(last.h, last.v).ents
    IN /\ Keys(rec) = Reserved \cup Keys(merged)
       /\ Len(rec) = Cardinality(Keys(rec))
       /\ \A k \in Keys(merged) : Get(rec, k) = Get(merged, k)
       /\ \A k \in Reserved \ Keys(merged) : Get(rec, k) = Envelope(k)
       /\ last.v.t = "str" => Get(rec, "message") = last.v
       /\ last.o.line = JSONstringify(last.h, last.o.logMessage)

\* a record whose level and message came from the input, next to a plain key
C8_Witness ==
  /\ IsLogCall
  /\ last.o.emitted
  /\ InputHasKey(last, "level")
  /\ InputHasKey(last, "message")
  /\ InputHasKey(last, "a")
  /\ Get(last.o.logMessage.ents, "level") = Num(1)
  /\ Get(last.o.logMessage.ents, "message") = Str(<<"[Circular]">>)
  /\ Get(last.o.logMessage.ents, "microservice") = Str(<<"Other">>)

\* the text of a string-valued field of the error passed to logComplexError
ErrorField(k) ==
  LET node == last.h[last.v.p] IN
  IF node.kind = "err" THEN (IF k = "name" THEN node.name.s ELSE node.message.s)
  ELSE IF k \in Keys(node.ents) /\ Get(node.ents, k).t = "str"
    THEN Get(node.ents, k).s
    ELSE <<>>

ComplexErrorOf(c) == Get(c.o.logMessage.ents, "complexError").s

\* a string with every line break turned into one space
Spaced(s) == [i \in 1..Len(s) |-> IF s[i] = "\n" THEN " " ELSE s[i]]

\* a string as it reads inside a JSON string literal
Escaped(s) == [i \in 1..Len(s) |-> Escape(s[i])]

\* what C9 says of every logComplexError call, but for the text contained
ComplexErrorEmitted ==
  /\ last.o.emitted
  /\ last.o.stream = "stderr"
  /\ stderr = <<last.o.line>>
  /\ stdout = <<>>
  /\ Get(last.o.logMessage.ents, "level") = Str(<<"ERROR">>)
  /\ \A i \in DOMAIN ComplexErrorOf(last) : ComplexErrorOf(last)[i] # "\n"
  /\ IsNativeError(last.h, last.v) => Contains(ComplexErrorOf(last), <<"at ">>)

-----------------------------------------------------------------------------
(* sanitizeObject                                                            *)

SanDone == san.phase \in {"sanitized", "again", "serialized"}

\* every node the value refers to, directly or not, is a plain object or array
PlainData(h, v) ==
  v.t = "ref" => \A q \in Reach(h, v.p) : h[q].kind \in {"obj", "arr"}

Acyclic(h, v) == v.t = "ref" => \A q \in Reach(h, v.p) : ~OnCycle(h, q)

\* a value built by sanitizeObject holds no function, no Error instance and
\* no cycle
JsonSafe(h, out) ==
  \A p \in RefLeaves(out) : \A q \in Reach(h, p) :
    /\ h[q].kind \in {"obj", "arr"}
    /\ ~OnCycle(h, q)

\* C5: sanitize never fails, and its result holds no function, no Error
\* instance and no cycle at any depth, so JSON.stringify does not throw on
\* it, for every graph of primitives, arrays, objects, functions and Errors.
C5_SanitizeIsJsonSafe ==
  /\ SanDone => JsonSafe(san.h, san.out)
  /\ san.phase = "serialized" => san.json # Throws

\* the value as a tree, references followed
RECURSIVE Unfold(_, _)
Unfold(h, v) ==
  IF v.t # "ref" THEN v
  ELSE IF h[v.p].kind = "arr"
    THEN Arr([i \in 1..Len(h[v.p].elems) |-> Unfold(h, h[v.p].elems[i])])
    ELSE Obj([i \in 1..Len(h[v.p].ents) |->
                Entry(h[v.p].ents[i].key, Unfold(h, h[v.p].ents[i].val))])

\* C6: on plain data without cycles sanitize(x) is structurally equal to x,
\* also when an object or array is referred to from two places.
C6_IdentityOnPlainData ==
  (SanDone /\ PlainData(san.h, san.v) /\ Acyclic(san.h, san.v)) =>
    san.out = Unfold(san.h, san.v)

\* the value as a tree in which exactly the references back to an enclosing
\* object or array are replaced
RECURSIVE CutBackReferences(_, _, _)
CutBackReferences(h, v, enclosing) ==
  IF v.t # "ref" THEN v
  ELSE IF v.p \in enclosing THEN Str(<<"[Circular]">>)
  ELSE IF h[v.p].kind = "arr"
    THEN Arr([i \in 1..Len(h[v.p].elems) |->
                CutBackReferences(h, h[v.p].elems[i], enclosing \cup {v.p})])
    ELSE Obj([i \in 1..Len(h[v.p].ents) |->
                Entry(h[v.p].ents[i].key,
                      CutBackReferences(h, h[v.p].ents[i].val,
                                        enclosing \cup {v.p}))])

\* C7: on an object that refers back to itself, directly or through nested
\* objects and arrays, sanitize ends, replaces exactly the back-references by
\* "[Circular]" and keeps every other value; a second run gives the same.
C7_ExactlyBackReferences ==
  (san.phase \in {"again", "serialized"} /\ san.v.t = "ref"
     /\ PlainData(san.h, san.v) /\ OnCycle(san.h, san.v.p)) =>
    /\ san.out = CutBackReferences(san.h, san.v, {})
    /\ san.out2 = san.out

====
